---- MODULE Spec2Model ----
(***************************************************************************)
(* A model of the zorq-acl access control list (src/src/lib.rs): the role  *)
(* and resource registries, the rule table, the lock with its rule cache,  *)
(* and the rule resolution of Acl::get_rule.                               *)
(***************************************************************************)
EXTENDS Naturals, Sequences, FiniteSets, TLC

VARIABLES resources, roles, rules, lock, ret, call

vars == <<resources, roles, rules, lock, ret, call>>

(***************************************************************************)
(* Bounds of the model and the identifiers the calls draw from.            *)
(***************************************************************************)
MaxParents == 1
MaxRules == 1
MaxCache == 1

RoleNames == {"guest", "member"}
ResourceNames == {"news"}
PrivilegeNames == {"view"}

(***************************************************************************)
(* Option<T>: None is the empty tuple, Some(x) the one-element tuple, so   *)
(* the wildcard is distinct from every identifier.                         *)
(***************************************************************************)
None == <<>>
Some(x) == <<x>>
is_some(o) == o # None
is_none(o) == o = None
unwrap(o) == o[1]
Opt(S) == {None} \cup {Some(x) : x \in S}

Access == {"Allow", "Deny"}
Rule(acc) == [acc |-> acc]
Query(resource, role, privilege) ==
    [resource |-> resource, role |-> role, privilege |-> privilege]
ALL == Query(None, None, None)

(* Error values and the results of the calls, as tuples of strings. *)
DuplicateRole(s) == <<"DuplicateRole", s>>
MissingRole(s) == <<"MissingRole", s>>
MissingParent(s) == <<"MissingParent", s>>
DuplicateResource(s) == <<"DuplicateResource", s>>
MissingResource(s) == <<"MissingResource", s>>
Locked == <<"Locked">>
Ok == <<"Ok">>
Err(e) == <<"Err">> \o e
Unit == <<"()">>
Panic == <<"panic">>
RuleValue(rule) == <<"Rule", rule.acc>>
Bool(b) == IF b THEN <<"true">> ELSE <<"false">>

(* A returned Vec of names. *)
Names(v) == <<"Vec", v>>

(***************************************************************************)
(* call is the position of the call in progress when a call is followed    *)
(* step by step through its loops: Idle between calls, else the frame of   *)
(* the loop it is in with the loop's local variables. q is the query of    *)
(* the get_rule call the loop runs for, None for the public lineage calls. *)
(***************************************************************************)
Idle == [at |-> "idle"]
ResourceWalk(q, v, i) ==
    [at |-> "get_resource_lineage", q |-> q, v |-> v, i |-> i]
RoleWalk(q, rsrcs, lineage, stack, seen) ==
    [at |-> "iter_roles", q |-> q, resources |-> rsrcs, lineage |-> lineage,
     stack |-> stack, seen |-> seen]
Search(q, rsrcs, rs, n) ==
    [at |-> "query_precedence", q |-> q, resources |-> rsrcs, roles |-> rs, n |-> n]

(* BTreeMap / HashMap: a function on the keys present. *)
EmptyMap == <<>>
contains_key(m, k) == k \in DOMAIN m
get(m, k) == IF k \in DOMAIN m THEN Some(m[k]) ELSE None
insert(m, k, v) == (k :> v) @@ m
Min(S) == CHOOSE i \in S : \A j \in S : i <= j
reverse(s) == [i \in 1..Len(s) |-> s[Len(s) + 1 - i]]

ParentLists ==
    UNION {[1..n -> RoleNames] : n \in 0..MaxParents}

(***************************************************************************)
(* Acl::new                                                                *)
(***************************************************************************)
(* Acl::new without the catch-all rule, and with an allowing catch-all. *)
new_rules_unseeded == EmptyMap
new_rules_allow == insert(EmptyMap, ALL, Rule("Allow"))

new_rules == insert(EmptyMap, ALL, Rule("Deny"))

Init ==
    /\ resources = EmptyMap
    /\ roles = EmptyMap
    /\ rules = new_rules
    /\ lock = None
    /\ ret = Unit
    /\ call = Idle

(***************************************************************************)
(* Acl::lock, Acl::unlock                                                  *)
(***************************************************************************)
(* lock replacing the cache of an ACL that is already locked. *)
do_lock_fresh ==
    /\ lock' = Some(EmptyMap)
    /\ ret' = Unit
    /\ UNCHANGED <<resources, roles, rules, call>>

do_lock ==
    /\ lock' = IF is_none(lock) THEN Some(EmptyMap) ELSE lock
    /\ ret' = Unit
    /\ UNCHANGED <<resources, roles, rules, call>>

unlock ==
    /\ lock' = IF is_some(lock) THEN None ELSE lock
    /\ ret' = Unit
    /\ UNCHANGED <<resources, roles, rules, call>>

(***************************************************************************)
(* Acl::add_resource and the resource queries                              *)
(***************************************************************************)
(* add_resource without the check that the parent is registered. *)
add_resource_ret_unchecked_parent(name, parent) ==
    IF contains_key(resources, name) THEN Err(DuplicateResource(name)) ELSE Ok

add_resource_ret(name, parent) ==
    IF contains_key(resources, name) THEN Err(DuplicateResource(name))
    ELSE IF is_some(parent) /\ ~contains_key(resources, unwrap(parent))
         THEN Err(MissingParent(unwrap(parent)))
    ELSE Ok

(* add_resource emptying the cache of a locked ACL. *)
add_resource_resetting_cache(name, parent) ==
    /\ ret' = add_resource_ret(name, parent)
    /\ resources' = IF ret' = Ok THEN insert(resources, name, parent)
                    ELSE resources
    /\ lock' = IF is_some(lock) THEN Some(EmptyMap) ELSE lock
    /\ UNCHANGED <<roles, rules, call>>

add_resource(name, parent) ==
    /\ ret' = add_resource_ret(name, parent)
    /\ resources' = IF ret' = Ok THEN insert(resources, name, parent)
                    ELSE resources
    /\ UNCHANGED <<roles, rules, lock, call>>

has_resource(name) == contains_key(resources, name)

(* get_resource_parent taking a resource without a parent as missing. *)
get_resource_parent_root_missing(name) ==
    IF contains_key(resources, name) /\ is_some(resources[name])
    THEN <<"Ok", resources[name]>>
    ELSE Err(MissingResource(name))

get_resource_parent(name) ==
    IF contains_key(resources, name) THEN <<"Ok", resources[name]>>
    ELSE Err(MissingResource(name))

(* The loop of get_resource_lineage: i is the parent still to visit, v the *)
(* lineage so far; unwrap() of a parent that is not registered panics.     *)
RECURSIVE resource_lineage_loop(_, _)
resource_lineage_loop(v, i) ==
    IF is_some(i)
    THEN IF contains_key(resources, unwrap(i))
         THEN resource_lineage_loop(Append(v, unwrap(i)), resources[unwrap(i)])
         ELSE Panic
    ELSE v

(* get_resource_lineage that stops at the parent of the resource. *)
get_resource_lineage_one_step(name) ==
    IF ~contains_key(resources, name) THEN <<>>
    ELSE IF is_some(resources[name]) THEN <<name, unwrap(resources[name])>>
    ELSE <<name>>

get_resource_lineage(name) ==
    IF ~contains_key(resources, name) THEN <<>>
    ELSE resource_lineage_loop(<<name>>, resources[name])

get_resource_ancestors(name) ==
    LET lin == get_resource_lineage(name) IN
    IF Len(lin) > 1 THEN SubSeq(lin, 2, Len(lin)) ELSE <<>>

(***************************************************************************)
(* Acl::add_role and the role queries                                      *)
(***************************************************************************)
(* add_role reporting the last unregistered parent of the declaration. *)
add_role_ret_last_missing(name, parents) ==
    IF contains_key(roles, name) THEN Err(DuplicateRole(name))
    ELSE LET missing == {i \in 1..Len(parents) : ~contains_key(roles, parents[i])} IN
         IF missing # {}
         THEN Err(MissingParent(parents[CHOOSE i \in missing : \A j \in missing : j <= i]))
         ELSE Ok

(* add_role without the check that the parents are registered. *)
add_role_ret_unchecked_parents(name, parents) ==
    IF contains_key(roles, name) THEN Err(DuplicateRole(name)) ELSE Ok

(* add_role reporting the new role's name for a missing parent. *)
add_role_ret_names_child(name, parents) ==
    IF contains_key(roles, name) THEN Err(DuplicateRole(name))
    ELSE LET missing == {i \in 1..Len(parents) : ~contains_key(roles, parents[i])} IN
         IF missing # {} THEN Err(MissingParent(name))
         ELSE Ok

(* add_role without the check for an already registered name. *)
add_role_ret_no_duplicate_check(name, parents) ==
    LET missing == {i \in 1..Len(parents) : ~contains_key(roles, parents[i])} IN
    IF missing # {} THEN Err(MissingParent(parents[Min(missing)]))
    ELSE Ok

add_role_ret(name, parents) ==
    IF contains_key(roles, name) THEN Err(DuplicateRole(name))
    ELSE LET missing == {i \in 1..Len(parents) : ~contains_key(roles, parents[i])} IN
         IF missing # {} THEN Err(MissingParent(parents[Min(missing)]))
         ELSE Ok

(* add_role storing the parents in declaration order. *)
add_role_unreversed(name, parents) ==
    /\ ret' = add_role_ret(name, parents)
    /\ roles' = IF ret' = Ok THEN insert(roles, name, parents)
                ELSE roles
    /\ UNCHANGED <<resources, rules, lock, call>>

add_role(name, parents) ==
    /\ ret' = add_role_ret(name, parents)
    /\ roles' = IF ret' = Ok THEN insert(roles, name, reverse(parents))
                ELSE roles
    /\ UNCHANGED <<resources, rules, lock, call>>

has_role(name) == contains_key(roles, name)

get_role_parents(name) ==
    IF contains_key(roles, name) THEN <<"Ok", roles[name]>>
    ELSE Err(MissingRole(name))

(* iter_roles pushing every role it meets, seen or not. *)
RECURSIVE iter_roles_unseen(_, _, _)
iter_roles_unseen(rs, seen, lineage) ==
    IF rs = <<>> THEN [seen |-> seen, lineage |-> lineage]
    ELSE LET role == Head(rs)
             s1 == [seen |-> seen \cup {role}, lineage |-> Append(lineage, role)]
             s2 == IF contains_key(roles, role) /\ Len(roles[role]) > 0
                   THEN iter_roles_unseen(roles[role], s1.seen, s1.lineage)
                   ELSE s1
         IN iter_roles_unseen(Tail(rs), s2.seen, s2.lineage)

(* iter_roles pushing all the roles of rs before it descends into the      *)
(* parents of any of them.                                                 *)
RECURSIVE push_unseen(_, _, _)
push_unseen(rs, seen, lineage) ==
    IF rs = <<>> THEN [seen |-> seen, lineage |-> lineage]
    ELSE IF Head(rs) \notin seen
         THEN push_unseen(Tail(rs), seen \cup {Head(rs)}, Append(lineage, Head(rs)))
         ELSE push_unseen(Tail(rs), seen, lineage)

RECURSIVE iter_roles_level_order(_, _, _)
RECURSIVE descend_level_order(_, _, _)
descend_level_order(rs, seen, lineage) ==
    IF rs = <<>> THEN [seen |-> seen, lineage |-> lineage]
    ELSE LET s2 == IF contains_key(roles, Head(rs)) /\ Len(roles[Head(rs)]) > 0
                   THEN iter_roles_level_order(roles[Head(rs)], seen, lineage)
                   ELSE [seen |-> seen, lineage |-> lineage]
         IN descend_level_order(Tail(rs), s2.seen, s2.lineage)

iter_roles_level_order(rs, seen, lineage) ==
    LET s1 == push_unseen(rs, seen, lineage)
    IN descend_level_order(rs, s1.seen, s1.lineage)

(* iter_roles threads the seen set and the lineage through the loop over   *)
(* rs and through the recursion into each role's stored parents.           *)
RECURSIVE iter_roles(_, _, _)
iter_roles(rs, seen, lineage) ==
    IF rs = <<>> THEN [seen |-> seen, lineage |-> lineage]
    ELSE LET role == Head(rs)
             s1 == IF role \notin seen
                   THEN [seen |-> seen \cup {role}, lineage |-> Append(lineage, role)]
                   ELSE [seen |-> seen, lineage |-> lineage]
             s2 == IF contains_key(roles, role) /\ Len(roles[role]) > 0
                   THEN iter_roles(roles[role], s1.seen, s1.lineage)
                   ELSE s1
         IN iter_roles(Tail(rs), s2.seen, s2.lineage)

(* get_role_lineage starting at the parents of the role. *)
get_role_lineage_without_self(name) ==
    IF ~contains_key(roles, name) THEN <<>>
    ELSE IF Len(roles[name]) > 0
         THEN iter_roles(roles[name], {}, <<>>).lineage
         ELSE <<>>

get_role_lineage(name) ==
    IF ~contains_key(roles, name) THEN <<>>
    ELSE IF Len(roles[name]) > 0
         THEN iter_roles(roles[name], {}, <<name>>).lineage
         ELSE <<name>>

(* get_role_ancestors keeping the role itself at the front. *)
get_role_ancestors_with_self(name) == get_role_lineage(name)

get_role_ancestors(name) ==
    LET lin == get_role_lineage(name) IN
    IF Len(lin) > 1 THEN SubSeq(lin, 2, Len(lin)) ELSE <<>>

(***************************************************************************)
(* The resolver: get_one_rule, query_privileges, query_roles,              *)
(* query_precedence. Each returns Option<&Rule>.                           *)
(***************************************************************************)
get_one_rule(role, resource, privilege) ==
    get(rules, Query(resource, role, privilege))

(* query_privileges probing the wildcard privilege for the pair of the      *)
(* wildcard resource and the wildcard role as well.                        *)
query_privileges_probing_catch_all(resource, role, privilege) ==
    IF is_some(privilege) /\ is_some(get_one_rule(role, resource, privilege))
    THEN get_one_rule(role, resource, privilege)
    ELSE get_one_rule(role, resource, None)

(* query_privileges with the wildcard privilege probed before the specific one. *)
query_privileges_wildcard_first(resource, role, privilege) ==
    IF (is_some(resource) \/ is_some(role))
       /\ is_some(get_one_rule(role, resource, None))
    THEN get_one_rule(role, resource, None)
    ELSE IF is_some(privilege)
         THEN get_one_rule(role, resource, privilege)
         ELSE None

query_privileges(resource, role, privilege) ==
    IF is_some(privilege) /\ is_some(get_one_rule(role, resource, privilege))
    THEN get_one_rule(role, resource, privilege)
    ELSE IF is_some(resource) \/ is_some(role)
         THEN get_one_rule(role, resource, None)
         ELSE None

(* query_roles probing the wildcard role only for a query on the wildcard   *)
(* role.                                                                   *)
query_roles_named_only(resource, rs, privilege) ==
    LET names == IF is_some(rs) THEN unwrap(rs) ELSE <<>>
        hits == {i \in 1..Len(names) :
                    is_some(query_privileges(resource, Some(names[i]), privilege))}
    IN IF hits # {}
       THEN query_privileges(resource, Some(names[Min(hits)]), privilege)
       ELSE IF is_some(rs) THEN None
       ELSE query_privileges(resource, None, privilege)

(* query_roles probing the privilege for every named role before the       *)
(* wildcard privilege of any of them.                                      *)
query_roles_privilege_first(resource, rs, privilege) ==
    LET names == IF is_some(rs) THEN unwrap(rs) ELSE <<>>
        specific == {i \in 1..Len(names) :
                        /\ is_some(privilege)
                        /\ is_some(get_one_rule(Some(names[i]), resource, privilege))}
        wildcard == {i \in 1..Len(names) :
                        is_some(get_one_rule(Some(names[i]), resource, None))}
    IN IF specific # {}
       THEN get_one_rule(Some(names[Min(specific)]), resource, privilege)
       ELSE IF wildcard # {}
       THEN get_one_rule(Some(names[Min(wildcard)]), resource, None)
       ELSE query_privileges(resource, None, privilege)

(* query_roles with the wildcard role probed before the named roles. *)
query_roles_wildcard_first(resource, rs, privilege) ==
    LET names == IF is_some(rs) THEN unwrap(rs) ELSE <<>>
        hits == {i \in 1..Len(names) :
                    is_some(query_privileges(resource, Some(names[i]), privilege))}
    IN IF is_some(query_privileges(resource, None, privilege))
       THEN query_privileges(resource, None, privilege)
       ELSE IF hits # {}
       THEN query_privileges(resource, Some(names[Min(hits)]), privilege)
       ELSE None

query_roles(resource, rs, privilege) ==
    LET names == IF is_some(rs) THEN unwrap(rs) ELSE <<>>
        hits == {i \in 1..Len(names) :
                    is_some(query_privileges(resource, Some(names[i]), privilege))}
    IN IF hits # {}
       THEN query_privileges(resource, Some(names[Min(hits)]), privilege)
       ELSE query_privileges(resource, None, privilege)

(* query_precedence with the wildcard resource searched before the lineage. *)
query_precedence_wildcard_first(role, resource, privilege) ==
    LET rsrcs == IF is_some(resource)
                 THEN get_resource_lineage(unwrap(resource)) ELSE <<>>
        rs == IF is_some(role)
              THEN Some(get_role_lineage(unwrap(role))) ELSE None
        hits == {i \in 1..Len(rsrcs) :
                    is_some(query_roles(Some(rsrcs[i]), rs, privilege))}
    IN IF is_some(query_roles(None, rs, privilege))
       THEN query_roles(None, rs, privilege)
       ELSE IF hits # {}
       THEN query_roles(Some(rsrcs[Min(hits)]), rs, privilege)
       ELSE None

query_precedence(role, resource, privilege) ==
    LET rsrcs == IF is_some(resource)
                 THEN get_resource_lineage(unwrap(resource)) ELSE <<>>
        rs == IF is_some(role)
              THEN Some(get_role_lineage(unwrap(role))) ELSE None
        hits == {i \in 1..Len(rsrcs) :
                    is_some(query_roles(Some(rsrcs[i]), rs, privilege))}
    IN IF hits # {}
       THEN query_roles(Some(rsrcs[Min(hits)]), rs, privilege)
       ELSE query_roles(None, rs, privilege)

(***************************************************************************)
(* Acl::get_rule: the returned rule and the lock (cache) it leaves.        *)
(***************************************************************************)
catch_all == IF contains_key(rules, ALL) THEN RuleValue(rules[ALL]) ELSE Panic

(* get_rule keeping only the newest entry in the cache. *)
get_rule_result_caching_latest(role, resource, privilege) ==
    LET q == Query(resource, role, privilege)
        cached == IF is_some(lock) THEN get(unwrap(lock), q) ELSE None
        found == query_precedence(role, resource, privilege)
    IN IF contains_key(rules, q)
       THEN [rule |-> RuleValue(rules[q]), lock |-> lock]
       ELSE IF q # ALL /\ is_some(cached)
       THEN [rule |-> RuleValue(unwrap(cached)), lock |-> lock]
       ELSE IF q # ALL /\ is_some(found)
       THEN [rule |-> RuleValue(unwrap(found)),
             lock |-> IF is_some(lock)
                      THEN Some(insert(EmptyMap, q, unwrap(found)))
                      ELSE lock]
       ELSE [rule |-> catch_all, lock |-> lock]

(* get_rule caching what the search finds under the query's key without *)
(* its privilege.                                                       *)
get_rule_result_caching_pair(role, resource, privilege) ==
    LET q == Query(resource, role, privilege)
        cached == IF is_some(lock) THEN get(unwrap(lock), q) ELSE None
        found == query_precedence(role, resource, privilege)
    IN IF contains_key(rules, q)
       THEN [rule |-> RuleValue(rules[q]), lock |-> lock]
       ELSE IF q # ALL /\ is_some(cached)
       THEN [rule |-> RuleValue(unwrap(cached)), lock |-> lock]
       ELSE IF q # ALL /\ is_some(found)
       THEN [rule |-> RuleValue(unwrap(found)),
             lock |-> IF is_some(lock)
                      THEN Some(insert(unwrap(lock), Query(resource, role, None),
                                       unwrap(found)))
                      ELSE lock]
       ELSE [rule |-> catch_all, lock |-> lock]

(* get_rule caching the rules it finds under the exact key as well. *)
get_rule_result_caching_direct(role, resource, privilege) ==
    LET q == Query(resource, role, privilege)
        cached == IF is_some(lock) THEN get(unwrap(lock), q) ELSE None
        found == query_precedence(role, resource, privilege)
    IN IF contains_key(rules, q)
       THEN [rule |-> RuleValue(rules[q]),
             lock |-> IF is_some(lock)
                      THEN Some(insert(unwrap(lock), q, rules[q]))
                      ELSE lock]
       ELSE IF q # ALL /\ is_some(cached)
       THEN [rule |-> RuleValue(unwrap(cached)), lock |-> lock]
       ELSE IF q # ALL /\ is_some(found)
       THEN [rule |-> RuleValue(unwrap(found)),
             lock |-> IF is_some(lock)
                      THEN Some(insert(unwrap(lock), q, unwrap(found)))
                      ELSE lock]
       ELSE [rule |-> catch_all, lock |-> lock]

get_rule_result(role, resource, privilege) ==
    LET q == Query(resource, role, privilege)
        cached == IF is_some(lock) THEN get(unwrap(lock), q) ELSE None
        found == query_precedence(role, resource, privilege)
    IN IF contains_key(rules, q)
       THEN [rule |-> RuleValue(rules[q]), lock |-> lock]
       ELSE IF q # ALL /\ is_some(cached)
       THEN [rule |-> RuleValue(unwrap(cached)), lock |-> lock]
       ELSE IF q # ALL /\ is_some(found)
       THEN [rule |-> RuleValue(unwrap(found)),
             lock |-> IF is_some(lock)
                      THEN Some(insert(unwrap(lock), q, unwrap(found)))
                      ELSE lock]
       ELSE [rule |-> catch_all, lock |-> lock]

get_rule(role, resource, privilege) ==
    LET r == get_rule_result(role, resource, privilege) IN
    /\ ret' = r.rule
    /\ lock' = r.lock
    /\ UNCHANGED <<resources, roles, rules, call>>

is_allowed_ret(role, resource, privilege) ==
    Bool(get_rule_result(role, resource, privilege).rule = RuleValue(Rule("Allow")))

is_allowed(role, resource, privilege) ==
    /\ ret' = is_allowed_ret(role, resource, privilege)
    /\ lock' = get_rule_result(role, resource, privilege).lock
    /\ UNCHANGED <<resources, roles, rules, call>>

is_denied_ret(role, resource, privilege) ==
    Bool(get_rule_result(role, resource, privilege).rule = RuleValue(Rule("Deny")))

is_denied(role, resource, privilege) ==
    /\ ret' = is_denied_ret(role, resource, privilege)
    /\ lock' = get_rule_result(role, resource, privilege).lock
    /\ UNCHANGED <<resources, roles, rules, call>>

(***************************************************************************)
(* Acl::set_rule, Acl::allow, Acl::deny                                    *)
(***************************************************************************)
(* set_rule without the lock gate. *)
set_rule_ret_no_lock_gate(role, resource, privilege) ==
    IF is_some(resource) /\ ~contains_key(resources, unwrap(resource))
    THEN Err(MissingResource(unwrap(resource)))
    ELSE IF is_some(role) /\ ~contains_key(roles, unwrap(role))
         THEN Err(MissingRole(unwrap(role)))
    ELSE Ok

(* set_rule checking the lock after the registries. *)
set_rule_ret_lock_last(role, resource, privilege) ==
    IF is_some(resource) /\ ~contains_key(resources, unwrap(resource))
    THEN Err(MissingResource(unwrap(resource)))
    ELSE IF is_some(role) /\ ~contains_key(roles, unwrap(role))
         THEN Err(MissingRole(unwrap(role)))
    ELSE IF is_some(lock) THEN Err(Locked)
    ELSE Ok

(* set_rule without the checks of the resource and the role. *)
set_rule_ret_unvalidated(role, resource, privilege) ==
    IF is_some(lock) THEN Err(Locked) ELSE Ok

(* set_rule checking the role before the resource. *)
set_rule_ret_role_first(role, resource, privilege) ==
    IF is_some(lock) THEN Err(Locked)
    ELSE IF is_some(role) /\ ~contains_key(roles, unwrap(role))
         THEN Err(MissingRole(unwrap(role)))
    ELSE IF is_some(resource) /\ ~contains_key(resources, unwrap(resource))
         THEN Err(MissingResource(unwrap(resource)))
    ELSE Ok

set_rule_ret(role, resource, privilege) ==
    IF is_some(lock) THEN Err(Locked)
    ELSE IF is_some(resource) /\ ~contains_key(resources, unwrap(resource))
         THEN Err(MissingResource(unwrap(resource)))
    ELSE IF is_some(role) /\ ~contains_key(roles, unwrap(role))
         THEN Err(MissingRole(unwrap(role)))
    ELSE Ok

(* set_rule dropping the other rules of the key's resource and role. *)
set_rule_rules_resetting_pair(role, resource, privilege, access) ==
    LET query == Query(resource, role, privilege)
        kept == {k \in DOMAIN rules : k.resource # resource \/ k.role # role}
    IN IF set_rule_ret(role, resource, privilege) = Ok /\ query # ALL
       THEN insert([k \in kept |-> rules[k]], query, Rule(access))
       ELSE rules

(* set_rule taking a deny of a stored key as the removal of its rule. *)
set_rule_rules_deny_removes(role, resource, privilege, access) ==
    LET query == Query(resource, role, privilege) IN
    IF set_rule_ret(role, resource, privilege) = Ok /\ query # ALL
    THEN IF access = "Deny" /\ contains_key(rules, query)
         THEN [k \in DOMAIN rules \ {query} |-> rules[k]]
         ELSE insert(rules, query, Rule(access))
    ELSE rules

(* set_rule writing the catch-all key too, and set_rule keeping a stored rule. *)
set_rule_rules_any_key(role, resource, privilege, access) ==
    IF set_rule_ret(role, resource, privilege) = Ok
    THEN insert(rules, Query(resource, role, privilege), Rule(access))
    ELSE rules

set_rule_rules_keep(role, resource, privilege, access) ==
    LET query == Query(resource, role, privilege) IN
    IF set_rule_ret(role, resource, privilege) = Ok /\ query # ALL
       /\ ~contains_key(rules, query)
    THEN insert(rules, query, Rule(access))
    ELSE rules

set_rule_rules(role, resource, privilege, access) ==
    LET query == Query(resource, role, privilege) IN
    IF set_rule_ret(role, resource, privilege) = Ok /\ query # ALL
    THEN insert(rules, query, Rule(access))
    ELSE rules

set_rule(role, resource, privilege, access) ==
    /\ ret' = set_rule_ret(role, resource, privilege)
    /\ rules' = set_rule_rules(role, resource, privilege, access)
    /\ UNCHANGED <<resources, roles, lock, call>>

allow(role, resource, privilege) == set_rule(role, resource, privilege, "Allow")

deny(role, resource, privilege) == set_rule(role, resource, privilege, "Deny")

(***************************************************************************)
(* The calls a client can make, with their arguments. The rule table and   *)
(* the cache are kept within MaxRules and MaxCache entries.                *)
(***************************************************************************)
Roles == Opt(RoleNames)
Resources == Opt(ResourceNames)
Privileges == Opt(PrivilegeNames)

RulesFit == Cardinality(DOMAIN rules') <= MaxRules + 1
CacheFits == is_some(lock') => Cardinality(DOMAIN unwrap(lock')) <= MaxCache

Next ==
    \/ do_lock
    \/ unlock
    \/ \E name \in ResourceNames, parent \in Resources : add_resource(name, parent)
    \/ \E name \in RoleNames, parents \in ParentLists : add_role(name, parents)
    \/ \E role \in Roles, resource \in Resources, privilege \in Privileges,
          access \in Access :
          set_rule(role, resource, privilege, access) /\ RulesFit
    \/ \E role \in Roles, resource \in Resources, privilege \in Privileges :
          allow(role, resource, privilege) /\ RulesFit
    \/ \E role \in Roles, resource \in Resources, privilege \in Privileges :
          deny(role, resource, privilege) /\ RulesFit
    \/ \E role \in Roles, resource \in Resources, privilege \in Privileges :
          get_rule(role, resource, privilege) /\ CacheFits
    \/ \E role \in Roles, resource \in Resources, privilege \in Privileges :
          is_allowed(role, resource, privilege) /\ CacheFits
    \/ \E role \in Roles, resource \in Resources, privilege \in Privileges :
          is_denied(role, resource, privilege) /\ CacheFits

Spec == Init /\ [][Next]_vars

(***************************************************************************)
(* Clients that make only calls that succeed, and declare roles and        *)
(* resources in a fixed order (a role after its parents). They build       *)
(* deeper hierarchies and larger rule tables than Spec's client.           *)
(***************************************************************************)
Range(s) == {s[i] : i \in 1..Len(s)}
Before(s, i) == {s[j] : j \in 1..(i - 1)}
MaxDeclared == 2
ListsOver(S) == UNION {[1..n -> S] : n \in 0..MaxDeclared}
RulesWithin(n) == Cardinality(DOMAIN rules') <= n + 1
CacheWithin(n) == is_some(lock') => Cardinality(DOMAIN unwrap(lock')) <= n

declare_resource(names) ==
    \E i \in 1..Len(names) : \E parent \in Opt(Before(names, i)) :
        add_resource(names[i], parent) /\ ret' = Ok

declare_role(names) ==
    \E i \in 1..Len(names) : \E parents \in ListsOver(Before(names, i)) :
        add_role(names[i], parents) /\ ret' = Ok

define_rule(roleNames, resourceNames, privilegeNames, n) ==
    \E role \in Opt(roleNames), resource \in Opt(resourceNames),
       privilege \in Opt(privilegeNames), access \in Access :
        set_rule(role, resource, privilege, access) /\ ret' = Ok /\ RulesWithin(n)

(* Two roles, two resources, one privilege: every level of the search. *)
MaxHierRules == 2
HierRoles == <<"guest", "member">>
HierResources == <<"news", "latest">>
HierPrivileges == {"view"}
AskPrivileges == {"view", "edit"}

NextHier ==
    \/ declare_resource(HierResources)
    \/ declare_role(HierRoles)
    \/ define_rule(Range(HierRoles), Range(HierResources), HierPrivileges, MaxHierRules)

SpecHier == Init /\ [][NextHier]_vars

(* Three roles, so that a role can have two different parents. *)
MaxLifoRules == 2
LifoRoles == <<"guest", "member", "admin">>

NextLifo ==
    \/ declare_role(LifoRoles)
    \/ define_rule(Range(LifoRoles), {}, HierPrivileges, MaxLifoRules)

SpecLifo == Init /\ [][NextLifo]_vars

(* Two roles, a resource and the lock: queries fill the cache while locked. *)
MaxCacheRules == 2
MaxCached == 1
CacheRoles == <<"guest", "member">>
CacheResources == <<"news">>

NextCache ==
    \/ do_lock
    \/ unlock
    \/ declare_resource(CacheResources)
    \/ declare_role(CacheRoles)
    \/ define_rule(Range(CacheRoles), Range(CacheResources), HierPrivileges,
                   MaxCacheRules)
    \/ \E role \in Opt(Range(CacheRoles)), resource \in Opt(Range(CacheResources)),
          privilege \in Opt(HierPrivileges) :
          get_rule(role, resource, privilege) /\ CacheWithin(MaxCached)

SpecCache == Init /\ [][NextCache]_vars

(***************************************************************************)
(* The queries the properties below range over: role and resource names,   *)
(* registered or not yet, a privilege no rule names, and the wildcard in   *)
(* each slot.                                                              *)
(***************************************************************************)
QRoles == Opt({"guest", "member"})
QResources == Opt({"news", "latest"})
QPrivileges == Opt(AskPrivileges)

Returned(role, resource, privilege) == get_rule_result(role, resource, privilege).rule

(* The search order written out as one list of keys: resource levels       *)
(* outermost, role levels inside them, and per pair the specific privilege *)
(* before the wildcard privilege.                                          *)
ResourceLevels(resource) ==
    IF is_some(resource)
    THEN LET lineage == get_resource_lineage(unwrap(resource))
         IN [i \in 1..Len(lineage) |-> Some(lineage[i])] \o <<None>>
    ELSE <<None>>

RoleLevels(role) ==
    IF is_some(role)
    THEN LET lineage == get_role_lineage(unwrap(role))
         IN [i \in 1..Len(lineage) |-> Some(lineage[i])] \o <<None>>
    ELSE <<None>>

PairProbes(x, r, privilege) ==
    (IF is_some(privilege) THEN <<Query(x, r, privilege)>> ELSE <<>>)
    \o (IF is_some(x) \/ is_some(r) THEN <<Query(x, r, None)>> ELSE <<>>)

RECURSIVE Flatten(_)
Flatten(ss) == IF ss = <<>> THEN <<>> ELSE Head(ss) \o Flatten(Tail(ss))

LevelProbes(x, role, privilege) ==
    LET levels == RoleLevels(role)
    IN Flatten([j \in 1..Len(levels) |-> PairProbes(x, levels[j], privilege)])

ProbeOrder(role, resource, privilege) ==
    LET levels == ResourceLevels(resource)
    IN <<Query(resource, role, privilege)>>
       \o Flatten([i \in 1..Len(levels) |-> LevelProbes(levels[i], role, privilege)])

FirstHit(probes) ==
    LET hits == {k \in 1..Len(probes) : probes[k] \in DOMAIN rules} IN
    IF hits # {} THEN RuleValue(rules[probes[Min(hits)]])
    ELSE RuleValue(rules[ALL])

\* C1: while unlocked, get_rule returns the rule of the first key of the
\* search order (exact key; then resource levels x role levels x specific
\* privilege before wildcard privilege) that is in the rule table, and the
\* catch-all rule when none is.
C1_FirstHitWins ==
    is_none(lock) =>
        \A role \in QRoles, resource \in QResources, privilege \in QPrivileges :
            Returned(role, resource, privilege)
                = FirstHit(ProbeOrder(role, resource, privilege))

\* A query on a two-level resource and a two-level role whose search order
\* holds two stored keys with different decisions, neither the exact key.
C1_Witness ==
    /\ is_none(lock)
    /\ get_resource_lineage("latest") = <<"latest", "news">>
    /\ get_role_lineage("member") = <<"member", "guest">>
    /\ LET probes == ProbeOrder(Some("member"), Some("latest"), Some("view"))
           hits == {k \in 2..Len(probes) : probes[k] \in DOMAIN rules}
       IN /\ probes[1] \notin DOMAIN rules
          /\ \E k1, k2 \in hits : rules[probes[k1]] # rules[probes[k2]]
          /\ Returned(Some("member"), Some("latest"), Some("view"))
                = RuleValue(rules[probes[Min(hits)]])

\* C2: in every state and for every query, registered or not, get_rule
\* returns a rule (the catch-all lookup never fails) and exactly one of
\* is_allowed and is_denied is true.
C2_Bivalence ==
    \A role \in QRoles, resource \in QResources, privilege \in QPrivileges :
        /\ Returned(role, resource, privilege) \in {RuleValue(Rule(a)) : a \in Access}
        /\ (is_allowed_ret(role, resource, privilege) = Bool(TRUE))
              # (is_denied_ret(role, resource, privilege) = Bool(TRUE))

\* is_allowed has just returned true while locked, and a query naming an
\* unregistered role is answered from the cache.
C2_Witness ==
    /\ is_some(lock)
    /\ ret = Bool(TRUE)
    /\ \E role \in RoleNames, resource \in QResources, privilege \in QPrivileges :
          /\ ~has_role(role)
          /\ Query(resource, Some(role), privilege) \in DOMAIN unwrap(lock)
          /\ is_allowed_ret(Some(role), resource, privilege) = Bool(TRUE)

AnySetRule(role, resource, privilege) ==
    \E access \in Access : set_rule(role, resource, privilege, access)

\* C3: as long as no set_rule, allow or deny call has succeeded (only such a
\* call changes the rule table, which then still holds the catch-all alone),
\* every query returns Deny, whatever roles and resources are registered and
\* whether the ACL is locked or not.
C3_DenyByDefault ==
    /\ [](DOMAIN rules = {ALL} =>
            \A role \in QRoles, resource \in QResources, privilege \in QPrivileges :
                Returned(role, resource, privilege) = RuleValue(Rule("Deny")))
    /\ [][rules' # rules =>
            /\ ret' = Ok
            /\ \E role \in Roles, resource \in Resources, privilege \in Privileges :
                  AnySetRule(role, resource, privilege)]_vars

\* No rule was ever set, a role with a parent and a resource are registered,
\* the ACL is locked and get_rule has just returned Deny.
C3_Witness ==
    /\ DOMAIN rules = {ALL}
    /\ is_some(lock)
    /\ has_resource("news")
    /\ has_role("member") /\ roles["member"] = <<"guest">>
    /\ ret = RuleValue(Rule("Deny"))

(* The stored keys the search probes at one resource level. *)
LevelHits(x, role, privilege) ==
    LET probes == LevelProbes(x, role, privilege)
    IN {k \in 1..Len(probes) : probes[k] \in DOMAIN rules}

\* C4: the nearest resource level (the resource, then its ancestors, then
\* the wildcard resource) at which any key matches through a role of the
\* lineage or the wildcard role decides the query, whatever is stored at
\* farther levels, even for the query role itself.
C4_ResourceDominates ==
    is_none(lock) =>
        \A role \in QRoles, resource \in QResources, privilege \in QPrivileges :
            LET levels == ResourceLevels(resource) IN
            \A i \in 1..Len(levels) :
                (/\ LevelHits(levels[i], role, privilege) # {}
                 /\ \A j \in 1..(i - 1) : LevelHits(levels[j], role, privilege) = {})
                => Returned(role, resource, privilege)
                      = FirstHit(LevelProbes(levels[i], role, privilege))

\* A wildcard-role deny on a resource beats the querying role's allow-all
\* rule on the wildcard resource.
C4_Witness ==
    /\ is_none(lock)
    /\ get(rules, Query(Some("latest"), None, Some("view"))) = Some(Rule("Deny"))
    /\ get(rules, Query(None, Some("member"), None)) = Some(Rule("Allow"))
    /\ Returned(Some("member"), Some("latest"), Some("view")) = RuleValue(Rule("Deny"))

(* The probes of one resource level that name a role, in search order. *)
NamedProbes(x, role, privilege) ==
    SelectSeq(LevelProbes(x, role, privilege), LAMBDA k : is_some(k.role))

\* C5: at each resource level of a query, a rule stored for the query role
\* or one of its ancestors (specific or wildcard privilege) is returned by
\* query_roles before any wildcard-role rule of that level.
C5_NamedRolesBeforeWildcard ==
    \A role \in QRoles, resource \in QResources, privilege \in QPrivileges :
        LET levels == ResourceLevels(resource)
            rs == IF is_some(role) THEN Some(get_role_lineage(unwrap(role))) ELSE None
        IN \A i \in 1..Len(levels) :
              LET named == NamedProbes(levels[i], role, privilege)
                  hits == {k \in 1..Len(named) : named[k] \in DOMAIN rules}
              IN hits # {} =>
                    query_roles(levels[i], rs, privilege)
                        = Some(rules[named[Min(hits)]])

\* An inherited rule of guest governs over a wildcard-role rule on the same
\* resource.
C5_Witness ==
    /\ get_role_lineage("member") = <<"member", "guest">>
    /\ get(rules, Query(Some("news"), Some("guest"), None)) = Some(Rule("Allow"))
    /\ get(rules, Query(Some("news"), None, Some("view"))) = Some(Rule("Deny"))
    /\ Returned(Some("member"), Some("news"), Some("view")) = RuleValue(Rule("Allow"))

(* The first rule found for the roles of a's lineage at resource level x,  *)
(* the wildcard role left out.                                             *)
NamedHit(x, a, privilege) ==
    LET lin == get_role_lineage(a)
        hits == {k \in 1..Len(lin) :
                    is_some(query_privileges(x, Some(lin[k]), privilege))}
    IN IF hits # {} THEN query_privileges(x, Some(lin[Min(hits)]), privilege)
       ELSE None

(* For a role name declared with the given parents: at every resource      *)
(* level and privilege where name has no rule of its own, the search over  *)
(* name's lineage returns what the last-declared parent with a hit gives.  *)
LifoHolds(name, parents) ==
    \A x \in QResources, privilege \in QPrivileges :
        LET with == {i \in 1..Len(parents) :
                        is_some(NamedHit(x, parents[i], privilege))}
            last == CHOOSE i \in with : \A j \in with : j <= i
        IN (with # {} /\ is_none(query_privileges(x, Some(name), privilege)))
           => query_roles(x, Some(get_role_lineage(name)), privilege)
                 = NamedHit(x, parents[last], privilege)

\* C6: add_role stores the parents so that they are searched in reverse
\* declaration order: for every role, at every resource level and privilege
\* at which the role has no rule of its own, the search over its lineage
\* returns the rule found through the last-declared parent that has (or
\* inherits) a matching rule.
C6_LastDeclaredParentWins ==
    /\ [][\A name \in Range(LifoRoles), parents \in ListsOver(Range(LifoRoles)) :
            (add_role(name, parents) /\ ret' = Ok)
            => roles'[name] = reverse(parents)]_vars
    /\ [](\A name \in DOMAIN roles : LifoHolds(name, reverse(roles[name])))

\* admin was declared with parents [guest, member]; guest is denied and
\* member allowed, and the query for admin is allowed.
C6_Witness ==
    /\ has_role("admin") /\ roles["admin"] = <<"member", "guest">>
    /\ ret = Ok
    /\ get(rules, Query(None, Some("guest"), None)) = Some(Rule("Deny"))
    /\ get(rules, Query(None, Some("member"), None)) = Some(Rule("Allow"))
    /\ Returned(Some("admin"), None, None) = RuleValue(Rule("Allow"))

(* get_rule without the cache: exact key, hierarchical search, catch-all. *)
Uncached(role, resource, privilege) ==
    LET q == Query(resource, role, privilege)
        found == query_precedence(role, resource, privilege)
    IN IF contains_key(rules, q) THEN RuleValue(rules[q])
       ELSE IF q # ALL /\ is_some(found) THEN RuleValue(unwrap(found))
       ELSE catch_all

\* C7: while locked, get_rule returns for every query the rule the uncached
\* resolver computes from the current registries and rule table.
C7_CacheTransparent ==
    is_some(lock) =>
        \A role \in QRoles, resource \in QResources, privilege \in QPrivileges :
            Returned(role, resource, privilege) = Uncached(role, resource, privilege)

\* C8: in every locked state, every set_rule, allow and deny call returns
\* Locked and leaves the rule table as it was (no step of a locked ACL
\* changes the table), and add_role and add_resource with a new name and
\* registered parents return Ok and register the name.
C8_LockedGatesRulesOnly ==
    /\ [](is_some(lock) =>
            /\ \A role \in Roles, resource \in Resources, privilege \in Privileges :
                  /\ set_rule_ret(role, resource, privilege) = Err(Locked)
                  /\ \A access \in Access :
                        set_rule_rules(role, resource, privilege, access) = rules
            /\ \A name \in RoleNames, parents \in ParentLists :
                  (/\ ~has_role(name)
                   /\ \A i \in 1..Len(parents) : has_role(parents[i]))
                  => add_role_ret(name, parents) = Ok
            /\ \A name \in ResourceNames, parent \in Resources :
                  (/\ ~has_resource(name)
                   /\ (is_some(parent) => has_resource(unwrap(parent))))
                  => add_resource_ret(name, parent) = Ok)
    /\ [][is_some(lock) =>
            /\ rules' = rules
            /\ ret' = Ok =>
                  /\ \A name \in RoleNames, parents \in ParentLists :
                        add_role(name, parents) => has_role(name)'
                  /\ \A name \in ResourceNames, parent \in Resources :
                        add_resource(name, parent) => has_resource(name)'
         ]_vars

\* A rule call has just been refused on a locked ACL.
C8_Witness ==
    /\ is_some(lock)
    /\ ret = Err(Locked)
    /\ DOMAIN rules # {ALL}

\* C9: the all-wildcard key is always in the rule table with Deny, so
\* get_rule on it returns Deny; set_rule on that key while unlocked returns
\* Ok and changes nothing.
C9_CatchAllImmutable ==
    /\ [](/\ contains_key(rules, ALL)
          /\ rules[ALL] = Rule("Deny")
          /\ Returned(None, None, None) = RuleValue(Rule("Deny")))
    /\ [][\A access \in Access :
            (is_none(lock) /\ set_rule(None, None, None, access))
            => (ret' = Ok /\ UNCHANGED <<resources, roles, rules, lock>>)]_vars

\* Ok was returned although nothing is registered and no rule is stored:
\* the call was a set_rule on the all-wildcard key.
C9_Witness ==
    /\ ret = Ok
    /\ is_none(lock)
    /\ DOMAIN rules = {ALL}
    /\ roles = EmptyMap /\ resources = EmptyMap

(* The keys a client of SpecCache can write. *)
CacheKeys ==
    {Query(resource, role, privilege) :
        resource \in Opt(Range(CacheResources)), role \in Opt(Range(CacheRoles)),
        privilege \in Opt(HierPrivileges)} \ {ALL}

Wrote(K, access) == set_rule(K.role, K.resource, K.privilege, access) /\ ret' = Ok

\* C10: a successful set_rule(K, a) on a key K other than the catch-all makes
\* get_rule(K) return a, and what get_rule(K) returns for a stored key K
\* changes only in a step that is a successful set_rule on K.
C10_LastWriteWins ==
    [][/\ ret' = Ok =>
            \A K \in CacheKeys, access \in Access :
                Wrote(K, access)
                => Returned(K.role, K.resource, K.privilege)' = RuleValue(Rule(access))
       /\ \A K \in DOMAIN rules \ {ALL} :
             Returned(K.role, K.resource, K.privilege)'
                   # Returned(K.role, K.resource, K.privilege)
             => \E access \in Access : Wrote(K, access)
      ]_vars

\* A stored allow rule is returned while the ACL is locked, the cache holds
\* another query, and a second key has been written.
C10_Witness ==
    \E K \in CacheKeys :
        /\ get(rules, K) = Some(Rule("Allow"))
        /\ Cardinality(DOMAIN rules) = 3
        /\ is_some(lock) /\ unwrap(lock) # EmptyMap
        /\ Returned(K.role, K.resource, K.privilege) = RuleValue(Rule("Allow"))

\* C11: a successful add_role(name, parents) makes has_role(name) true and
\* get_role_parents(name) return the declared parents in reverse order
\* (duplicates kept), and no later step changes either answer.
C11_ParentsStoredReversed ==
    /\ [][ret' = Ok =>
            \A name \in Range(LifoRoles), parents \in ListsOver(Range(LifoRoles)) :
                add_role(name, parents)
                => /\ has_role(name)'
                   /\ get_role_parents(name)' = <<"Ok", reverse(parents)>>]_vars
    /\ [][\A name \in DOMAIN roles :
            /\ has_role(name)'
            /\ get_role_parents(name)' = get_role_parents(name)]_vars

\* member was declared with [guest, guest] and admin with [guest, member];
\* rules were defined afterwards, and both parent lists read back reversed.
C11_Witness ==
    /\ get_role_parents("member") = <<"Ok", <<"guest", "guest">>>>
    /\ get_role_parents("admin") = <<"Ok", <<"member", "guest">>>>
    /\ Cardinality(DOMAIN rules) = 3

(***************************************************************************)
(* A client that only declares: four roles, so that an ancestor can be     *)
(* reached along several paths and at different depths, and a chain of     *)
(* three resources.                                                        *)
(***************************************************************************)
DagRoles == <<"guest", "staff", "editor", "publisher">>
DagResources == <<"news", "latest", "breaking">>

NextDag ==
    \/ declare_role(DagRoles)
    \/ declare_resource(DagResources)

SpecDag == Init /\ [][NextDag]_vars

(* The roles reachable from the roles of S by zero or more parent steps. *)
RECURSIVE ReachableFrom(_)
ReachableFrom(S) ==
    LET next == S \cup UNION {Range(roles[r]) : r \in S \cap DOMAIN roles}
    IN IF next = S THEN S ELSE ReachableFrom(next)

NoRepeats(s) == \A i, j \in 1..Len(s) : s[i] = s[j] => i = j

\* C12: for every registered role r, get_role_lineage(r) starts with r, holds
\* no role twice, and holds exactly the roles reachable from r by zero or
\* more parent steps, all of them registered.
C12_LineageIsReachableSet ==
    \A r \in DOMAIN roles :
        LET lineage == get_role_lineage(r)
        IN /\ Len(lineage) >= 1 /\ lineage[1] = r
           /\ NoRepeats(lineage)
           /\ Range(lineage) = ReachableFrom({r})
           /\ Range(lineage) \subseteq DOMAIN roles

\* publisher lists a parent twice and reaches guest along several paths; its
\* lineage names each of the four roles once.
C12_Witness ==
    /\ has_role("publisher") /\ roles["publisher"] = <<"editor", "editor">>
    /\ roles["editor"] = <<"staff", "guest">>
    /\ roles["staff"] = <<"guest">>
    /\ Len(get_role_lineage("publisher")) = 4

(* The depth-first pre-order walk of the role graph, written with a stack: *)
(* the next role is visited unless it was visited before, and its stored   *)
(* parents are walked, in stored order, before the rest of the stack.      *)
RECURSIVE PreOrder(_, _)
PreOrder(stack, visited) ==
    IF stack = <<>> THEN visited
    ELSE IF Head(stack) \in Range(visited)
         THEN PreOrder(Tail(stack), visited)
         ELSE PreOrder(roles[Head(stack)] \o Tail(stack), Append(visited, Head(stack)))

SingleInheritance(r) == \A a \in ReachableFrom({r}) : Len(roles[a]) <= 1

\* C13: for every registered role r, get_role_lineage(r) is the depth-first
\* pre-order walk from r over the stored parent lists that skips visited
\* roles; when r and its ancestors have at most one parent each, it is the
\* chain from r to the root, each element the parent of the one before it.
C13_LineageIsPreOrder ==
    \A r \in DOMAIN roles :
        LET lineage == get_role_lineage(r)
        IN /\ lineage = PreOrder(<<r>>, <<>>)
           /\ SingleInheritance(r) =>
                 /\ \A i \in 1..(Len(lineage) - 1) :
                       roles[lineage[i]] = <<lineage[i + 1]>>
                 /\ roles[lineage[Len(lineage)]] = <<>>

\* publisher was declared with [editor, staff] and staff with [guest]: the
\* walk descends from staff to guest before it visits editor.
C13_Witness ==
    /\ has_role("publisher") /\ roles["publisher"] = <<"staff", "editor">>
    /\ roles["staff"] = <<"guest">>
    /\ get_role_lineage("publisher") = <<"publisher", "staff", "guest", "editor">>
    /\ get_role_lineage("staff") = <<"staff", "guest">>

\* C14: for every registered resource x, get_resource_lineage(x) starts with
\* x, each following element is the registered parent of the element before
\* it, the last element has no parent, and no resource appears twice.
C14_ResourceLineageIsParentChain ==
    \A x \in DOMAIN resources :
        LET lineage == get_resource_lineage(x)
        IN /\ Len(lineage) >= 1 /\ lineage[1] = x
           /\ \A i \in 1..(Len(lineage) - 1) :
                 /\ has_resource(lineage[i + 1])
                 /\ get_resource_parent(lineage[i]) = <<"Ok", Some(lineage[i + 1])>>
           /\ get_resource_parent(lineage[Len(lineage)]) = <<"Ok", None>>
           /\ NoRepeats(lineage)

\* The chain breaking -> latest -> news is registered and walked to its root.
C14_Witness ==
    /\ get_resource_lineage("breaking") = <<"breaking", "latest", "news">>
    /\ get_resource_ancestors("breaking") = <<"latest", "news">>
    /\ get_resource_lineage("news") = <<"news">>

\* C15: in every state, add_role on a registered role name returns
\* DuplicateRole(name) and add_resource on a registered resource name returns
\* DuplicateResource(name), whatever the parents; a step that returns either
\* error leaves the registries (so the stored parents of the existing
\* entry), the rule table, the lock state and the cache as they were.
C15_NamesAreUnique ==
    /\ [](/\ \A name \in RoleNames, parents \in ParentLists :
                has_role(name) => add_role_ret(name, parents) = Err(DuplicateRole(name))
          /\ \A name \in ResourceNames, parent \in Resources :
                has_resource(name)
                => add_resource_ret(name, parent) = Err(DuplicateResource(name)))
    /\ [][(\/ \E name \in RoleNames : ret' = Err(DuplicateRole(name))
           \/ \E name \in ResourceNames : ret' = Err(DuplicateResource(name)))
          => UNCHANGED <<resources, roles, rules, lock>>]_vars

\* member, registered with parent guest, was declared again on a locked ACL
\* that holds a rule and a cached query.
C15_Witness ==
    /\ ret = Err(DuplicateRole("member"))
    /\ roles["member"] = <<"guest">>
    /\ DOMAIN rules # {ALL}
    /\ is_some(lock) /\ unwrap(lock) # EmptyMap

(***************************************************************************)
(* A client of the registries that also makes the calls that fail: two     *)
(* roles and two resources, any parents, rules for the registered roles,   *)
(* and the lock.                                                           *)
(***************************************************************************)
RegResources == {"news", "latest"}

NextReg ==
    \/ do_lock
    \/ unlock
    \/ \E name \in RegResources, parent \in Opt(RegResources) : add_resource(name, parent)
    \/ \E name \in RoleNames, parents \in ParentLists : add_role(name, parents)
    \/ define_rule(RoleNames, {}, {}, MaxRules)

SpecReg == Init /\ [][NextReg]_vars

\* C16: add_role for a new name with a parent that is not registered returns
\* MissingParent with the name of a parent that is missing, and add_resource
\* for a new name with an unregistered parent p returns MissingParent(p);
\* the new name is not registered and nothing else changes.
C16_MissingParentNamesParent ==
    [][/\ \A name \in RoleNames, parents \in ParentLists :
             (/\ add_role(name, parents)
              /\ ~has_role(name)
              /\ \E i \in 1..Len(parents) : ~has_role(parents[i]))
             => /\ \E i \in 1..Len(parents) :
                      /\ ~has_role(parents[i])
                      /\ ret' = Err(MissingParent(parents[i]))
                /\ ~has_role(name)'
                /\ UNCHANGED <<resources, roles, rules, lock>>
       /\ \A name \in RegResources, p \in RegResources :
             (/\ add_resource(name, Some(p))
              /\ ~has_resource(name)
              /\ ~has_resource(p))
             => /\ ret' = Err(MissingParent(p))
                /\ ~has_resource(name)'
                /\ UNCHANGED <<resources, roles, rules, lock>>
      ]_vars

\* news was declared with the unregistered parent latest on a locked ACL that
\* holds a role and a rule: the error names latest and news is not registered.
C16_Witness ==
    /\ ret = Err(MissingParent("latest"))
    /\ ~has_resource("news") /\ ~has_resource("latest")
    /\ has_role("guest")
    /\ DOMAIN rules # {ALL}
    /\ is_some(lock)

RoleKnown(role) == is_none(role) \/ has_role(unwrap(role))
ResourceKnown(resource) == is_none(resource) \/ has_resource(unwrap(resource))

C18_StoredKeysAreRegistered ==
    \A K \in DOMAIN rules : RoleKnown(K.role) /\ ResourceKnown(K.resource)

\* A rule that names a role and a resource is stored, after calls that were
\* refused for an unregistered name.
C18_Witness ==
    /\ \E privilege \in Privileges :
          contains_key(rules, Query(Some("news"), Some("member"), privilege))
    /\ ~has_role("guest")
    /\ ret = Err(MissingRole("guest"))

(* What get_rule returns is the same before and after the step, for every *)
(* query of SpecCache's client that does not name the role / the resource *)
(* given.                                                                 *)
DecisionsKept(roleName, resourceName) ==
    \A role \in Opt(Range(CacheRoles)) \ {roleName},
       resource \in Opt(Range(CacheResources)) \ {resourceName},
       privilege \in Opt(HierPrivileges) :
        Returned(role, resource, privilege)' = Returned(role, resource, privilege)

\* C19 as stated: a successful add_role or add_resource, locked or not,
\* leaves the rule returned by get_rule unchanged for every query.
C19_AdditionsKeepDecisions ==
    [][(ret' = Ok /\ (roles' # roles \/ resources' # resources)) =>
        /\ \A name \in Range(CacheRoles), parents \in ListsOver(Range(CacheRoles)) :
              add_role(name, parents) => DecisionsKept(None, None)
        /\ \A name \in Range(CacheResources), parent \in Opt(Range(CacheResources)) :
              add_resource(name, parent) => DecisionsKept(None, None)
      ]_vars

\* C19, amended: a successful add_role(name, ..) leaves the rule returned by
\* get_rule unchanged for every query whose role is not name, and a
\* successful add_resource(name, ..) for every query whose resource is not
\* name, locked or not (a successful addition returns Ok and changes a
\* registry).
C19_AdditionsKeepOtherDecisions ==
    [][(ret' = Ok /\ (roles' # roles \/ resources' # resources)) =>
        /\ \A name \in Range(CacheRoles), parents \in ListsOver(Range(CacheRoles)) :
              add_role(name, parents) => DecisionsKept(Some(name), Some("none"))
        /\ \A name \in Range(CacheResources), parent \in Opt(Range(CacheResources)) :
              add_resource(name, parent) => DecisionsKept(Some("none"), Some(name))
      ]_vars

\* member was added with parent guest to a locked ACL that holds rules and a
\* cached query.
C19_Witness ==
    /\ ret = Ok
    /\ is_some(lock) /\ unwrap(lock) # EmptyMap
    /\ has_role("member") /\ roles["member"] = <<"guest">>
    /\ Cardinality(DOMAIN rules) = 3

\* C20: a new ACL is unlocked and has no cache. lock() on an unlocked ACL
\* locks it with an empty cache and on a locked ACL keeps the cache as it
\* is; unlock() on a locked ACL unlocks it and drops the cache and on an
\* unlocked ACL does nothing; an ACL becomes locked only by lock(), always
\* with an empty cache, and unlocked only by unlock(), so no entry cached
\* before an unlock() is there after a later lock(); lock() and unlock()
\* leave the roles, the resources and the rule table as they were.
C20_LockStateMachine ==
    /\ is_none(lock)
    /\ [][/\ (do_lock /\ is_none(lock)) => (is_some(lock') /\ unwrap(lock') = EmptyMap)
          /\ (do_lock /\ is_some(lock)) => lock' = lock
          /\ (unlock /\ is_some(lock)) => is_none(lock')
          /\ (unlock /\ is_none(lock)) => is_none(lock')
          /\ (do_lock \/ unlock) => UNCHANGED <<resources, roles, rules>>
          /\ (is_none(lock) /\ is_some(lock')) => (do_lock /\ unwrap(lock') = EmptyMap)
          /\ (is_some(lock) /\ is_none(lock')) => unlock
         ]_vars

\* lock() has just returned on an ACL whose cache holds a query: the second
\* lock() kept the entry.
C20_Witness ==
    /\ is_some(lock) /\ unwrap(lock) # EmptyMap
    /\ ret = Unit
    /\ DOMAIN rules # {ALL}

(* The queries a client of SpecCache can ask. *)
CacheQueries ==
    {Query(resource, role, privilege) :
        resource \in Opt(Range(CacheResources)), role \in Opt(Range(CacheRoles)),
        privilege \in Opt(HierPrivileges)}

\* C21: in every locked state, get_rule(q) computes a cache with one more
\* entry, q with the rule the hierarchical search finds, exactly when q is
\* not a key of the rule table, is not the all-wildcard key, is not cached
\* and the search finds a rule, and returns that rule; otherwise it leaves
\* the cache as it is. A step of a locked ACL that changes the cache adds
\* one such entry and returns its rule.
C21_CachingPolicy ==
    /\ [](is_some(lock) =>
            \A q \in CacheQueries :
                LET cache == unwrap(lock)
                    found == query_precedence(q.role, q.resource, q.privilege)
                    r == get_rule_result(q.role, q.resource, q.privilege)
                IN IF /\ ~contains_key(rules, q)
                      /\ q # ALL
                      /\ ~contains_key(cache, q)
                      /\ is_some(found)
                   THEN /\ is_some(r.lock)
                        /\ DOMAIN unwrap(r.lock) = DOMAIN cache \cup {q}
                        /\ unwrap(r.lock)[q] = unwrap(found)
                        /\ \A k \in DOMAIN cache : unwrap(r.lock)[k] = cache[k]
                        /\ r.rule = RuleValue(unwrap(found))
                   ELSE r.lock = lock)
    /\ [][(is_some(lock) /\ is_some(lock') /\ lock' # lock) =>
            \E q \in DOMAIN unwrap(lock') \ DOMAIN unwrap(lock) :
                /\ get_rule(q.role, q.resource, q.privilege)
                /\ unwrap(lock') = insert(unwrap(lock), q, unwrap(lock')[q])
                /\ ret' = RuleValue(unwrap(lock')[q])]_vars

\* The cache holds an inherited rule; a rule stored under an exact key was
\* just returned and is not in the cache.
C21_Witness ==
    /\ is_some(lock)
    /\ \E q \in DOMAIN unwrap(lock) :
          /\ ~contains_key(rules, q)
          /\ unwrap(lock)[q] = Rule("Allow")
    /\ \E q \in DOMAIN rules \ {ALL} :
          /\ ret = RuleValue(rules[q])
          /\ ~contains_key(unwrap(lock), q)
    /\ ret = RuleValue(Rule("Deny"))

(***************************************************************************)
(* The client of the cache test: it registers roles and resources and      *)
(* defines rules while unlocked, locks, and asks is_allowed; nothing is    *)
(* registered while the ACL is locked.                                     *)
(***************************************************************************)
NextFrozen ==
    \/ do_lock
    \/ unlock
    \/ is_none(lock) /\ declare_resource(CacheResources)
    \/ is_none(lock) /\ declare_role(CacheRoles)
    \/ define_rule(Range(CacheRoles), Range(CacheResources), HierPrivileges,
                   MaxCacheRules)
    \/ \E q \in CacheQueries :
          is_allowed(q.role, q.resource, q.privilege) /\ CacheWithin(MaxCached)

SpecFrozen == Init /\ [][NextFrozen]_vars

\* C22: when nothing is registered while the ACL is locked, get_rule returns
\* for every query, in every state, the rule the uncached resolver computes
\* from the registries and the rule table alone: the same before lock(), on
\* the first evaluation after lock() and on every later evaluation, whatever
\* was queried in between; and every cached entry is that rule.
C22_LockingKeepsDecisions ==
    /\ \A q \in CacheQueries :
          Returned(q.role, q.resource, q.privilege)
              = Uncached(q.role, q.resource, q.privilege)
    /\ is_some(lock) =>
          \A q \in DOMAIN unwrap(lock) :
              RuleValue(unwrap(lock)[q]) = Uncached(q.role, q.resource, q.privilege)

\* is_allowed has just returned true on a locked ACL whose cache holds an
\* allow rule that member inherits from guest.
C22_Witness ==
    /\ is_some(lock)
    /\ ret = Bool(TRUE)
    /\ get_role_lineage("member") = <<"member", "guest">>
    /\ \E q \in DOMAIN unwrap(lock) :
          /\ q.role = Some("member")
          /\ unwrap(lock)[q] = Rule("Allow")
          /\ \E k \in DOMAIN rules : k.role = Some("guest") /\ rules[k] = Rule("Allow")

\* C23: no step removes a registered role, a registered resource or a key of
\* the rule table, and no step changes the parents of a registered role or
\* the parent of a registered resource.
C23_NoRevocation ==
    [][/\ DOMAIN roles \subseteq DOMAIN roles'
       /\ \A r \in DOMAIN roles : roles'[r] = roles[r]
       /\ DOMAIN resources \subseteq DOMAIN resources'
       /\ \A x \in DOMAIN resources : resources'[x] = resources[x]
       /\ DOMAIN rules \subseteq DOMAIN rules'
      ]_vars

\* Both roles and the resource are registered, a rule
\* is stored with Deny and the last call succeeded.
C23_Witness ==
    /\ ret = Ok
    /\ is_none(lock)
    /\ roles = ("guest" :> <<>>) @@ ("member" :> <<"guest">>)
    /\ has_resource("news")
    /\ \E k \in DOMAIN rules \ {ALL} : rules[k] = Rule("Deny")

(* The resources reachable from the resources of S by zero or more parent *)
(* steps.                                                                 *)
RECURSIVE ResourcesReachableFrom(_)
ResourcesReachableFrom(S) ==
    LET next == S \cup {unwrap(resources[x]) :
                          x \in {y \in S \cap DOMAIN resources : is_some(resources[y])}}
    IN IF next = S THEN S ELSE ResourcesReachableFrom(next)

\* C24: in every state every parent of a registered role is a registered
\* role (R1), the parent of a registered resource is a registered resource
\* (Re1), no role and no resource is its own ancestor, and so the walk of
\* get_resource_lineage finds every parent it looks up.
C24_RegistriesWellFormed ==
    /\ \A r \in DOMAIN roles : Range(roles[r]) \subseteq DOMAIN roles
    /\ \A x \in DOMAIN resources :
          is_some(resources[x]) => has_resource(unwrap(resources[x]))
    /\ \A r \in DOMAIN roles : r \notin ReachableFrom(Range(roles[r]))
    /\ \A x \in DOMAIN resources :
          is_some(resources[x]) => x \notin ResourcesReachableFrom({unwrap(resources[x])})
    /\ \A x \in DOMAIN resources :
          /\ get_resource_lineage(x) # Panic
          /\ Range(get_resource_lineage(x)) \subseteq DOMAIN resources

\* A role with a registered parent and a root resource are registered, and
\* the last call, naming the unregistered resource "latest" as a parent, was
\* refused.
C24_Witness ==
    /\ ret = Err(MissingParent("latest"))
    /\ roles = ("guest" :> <<>>) @@ ("member" :> <<"guest">>)
    /\ resources = ("news" :> None)

(***************************************************************************)
(* The calls with loops, followed one loop iteration at a time:            *)
(* get_resource_lineage, get_role_lineage with iter_roles, and get_rule    *)
(* with the lineages and the search of query_precedence.                   *)
(***************************************************************************)
MaxWalk == 3

(* query_precedence after the resource lineage rsrcs: the role lineage is  *)
(* computed next, by iter_roles if the role has parents.                   *)
enter_role_lineage(q, rsrcs) ==
    IF is_none(q.role) THEN Search(q, rsrcs, None, 1)
    ELSE IF ~contains_key(roles, unwrap(q.role))
         THEN Search(q, rsrcs, Some(<<>>), 1)
    ELSE IF Len(roles[unwrap(q.role)]) > 0
         THEN RoleWalk(Some(q), rsrcs, <<unwrap(q.role)>>,
                       <<roles[unwrap(q.role)]>>, {})
    ELSE Search(q, rsrcs, Some(<<unwrap(q.role)>>), 1)

(* query_precedence starts with the resource lineage. *)
enter_query_precedence(q) ==
    IF is_none(q.resource) THEN enter_role_lineage(q, None)
    ELSE IF ~contains_key(resources, unwrap(q.resource))
         THEN enter_role_lineage(q, Some(<<>>))
    ELSE ResourceWalk(Some(q), <<unwrap(q.resource)>>, resources[unwrap(q.resource)])

begin_get_resource_lineage(name) ==
    /\ call = Idle
    /\ IF ~contains_key(resources, name)
       THEN ret' = Names(<<>>) /\ call' = Idle
       ELSE ret' = ret /\ call' = ResourceWalk(None, <<name>>, resources[name])
    /\ UNCHANGED <<resources, roles, rules, lock>>

(* One iteration of the loop of get_resource_lineage. *)
resource_lineage_step ==
    /\ call.at = "get_resource_lineage"
    /\ Len(call.v) <= MaxWalk
    /\ IF is_some(call.i)
       THEN IF contains_key(resources, unwrap(call.i))
            THEN /\ call' = [call EXCEPT !.v = Append(call.v, unwrap(call.i)),
                                         !.i = resources[unwrap(call.i)]]
                 /\ ret' = ret
            ELSE call' = Idle /\ ret' = Panic
       ELSE IF is_none(call.q)
            THEN call' = Idle /\ ret' = Names(call.v)
            ELSE call' = enter_role_lineage(unwrap(call.q), Some(call.v)) /\ ret' = ret
    /\ UNCHANGED <<resources, roles, rules, lock>>

begin_get_role_lineage(name) ==
    /\ call = Idle
    /\ IF ~contains_key(roles, name)
       THEN ret' = Names(<<>>) /\ call' = Idle
       ELSE IF Len(roles[name]) > 0
            THEN ret' = ret /\ call' = RoleWalk(None, None, <<name>>, <<roles[name]>>, {})
            ELSE ret' = Names(<<name>>) /\ call' = Idle
    /\ UNCHANGED <<resources, roles, rules, lock>>

(* One iteration of the for loop of the innermost iter_roles call, or its  *)
(* return: stack holds, for every iter_roles call in progress, the roles   *)
(* its loop has still to visit.                                            *)
iter_roles_step ==
    /\ call.at = "iter_roles"
    /\ Len(call.stack) <= MaxWalk
    /\ LET depth == Len(call.stack)
           top == call.stack[depth]
       IN IF top # <<>>
          THEN LET role == Head(top)
                   rest == [call.stack EXCEPT ![depth] = Tail(top)]
               IN /\ call' = [call EXCEPT
                       !.seen = call.seen \cup {role},
                       !.lineage = IF role \notin call.seen
                                   THEN Append(call.lineage, role)
                                   ELSE call.lineage,
                       !.stack = IF contains_key(roles, role) /\ Len(roles[role]) > 0
                                 THEN Append(rest, roles[role])
                                 ELSE rest]
                  /\ ret' = ret
          ELSE IF depth > 1
          THEN call' = [call EXCEPT !.stack = SubSeq(call.stack, 1, depth - 1)]
               /\ ret' = ret
          ELSE IF is_none(call.q)
          THEN call' = Idle /\ ret' = Names(call.lineage)
          ELSE call' = Search(unwrap(call.q), call.resources, Some(call.lineage), 1)
               /\ ret' = ret
    /\ UNCHANGED <<resources, roles, rules, lock>>

(* get_rule up to the call of query_precedence: the exact key, the         *)
(* catch-all query and the cache return at once.                           *)
begin_get_rule(role, resource, privilege) ==
    LET q == Query(resource, role, privilege) IN
    /\ call = Idle
    /\ IF contains_key(rules, q)
       THEN ret' = RuleValue(rules[q]) /\ call' = Idle
       ELSE IF q = ALL
       THEN ret' = catch_all /\ call' = Idle
       ELSE IF is_some(lock) /\ contains_key(unwrap(lock), q)
       THEN ret' = RuleValue(unwrap(lock)[q]) /\ call' = Idle
       ELSE ret' = ret /\ call' = enter_query_precedence(q)
    /\ UNCHANGED <<resources, roles, rules, lock>>

(* One iteration of the loop of query_precedence over the resource         *)
(* lineage, then the wildcard resource, then the rest of get_rule.         *)
query_precedence_step ==
    /\ call.at = "query_precedence"
    /\ LET q == call.q
           names == IF is_some(call.resources) THEN unwrap(call.resources) ELSE <<>>
           level == IF call.n <= Len(names) THEN Some(names[call.n]) ELSE None
           found == query_roles(level, call.roles, q.privilege)
       IN IF is_some(found)
          THEN /\ ret' = RuleValue(unwrap(found))
               /\ lock' = IF is_some(lock)
                          THEN Some(insert(unwrap(lock), q, unwrap(found)))
                          ELSE lock
               /\ call' = Idle
          ELSE IF call.n <= Len(names)
          THEN call' = [call EXCEPT !.n = call.n + 1] /\ ret' = ret /\ lock' = lock
          ELSE ret' = catch_all /\ call' = Idle /\ lock' = lock
    /\ UNCHANGED <<resources, roles, rules>>

(* The cache of a locked ACL has room for the entry of one more search. *)
CacheHasRoom == is_some(lock) => Cardinality(DOMAIN unwrap(lock)) < MaxCache

(* A client that registers roles and resources with any parents, so also   *)
(* the ones that must be refused, stores rules, locks and unlocks, and     *)
(* between these calls starts a lineage or get_rule call that then runs    *)
(* to its return. get_rule is called while the cache has room.             *)
NextSteps ==
    \/ call = Idle /\ do_lock
    \/ call = Idle /\ unlock
    \/ \E name \in RegResources, parent \in Opt(RegResources) :
          call = Idle /\ add_resource(name, parent)
    \/ \E name \in RoleNames, parents \in ParentLists :
          call = Idle /\ add_role(name, parents)
    \/ call = Idle /\ define_rule({"guest"}, {"news"}, {}, MaxRules)
    \/ \E name \in RegResources : begin_get_resource_lineage(name)
    \/ resource_lineage_step
    \/ \E name \in RoleNames : begin_get_role_lineage(name)
    \/ iter_roles_step
    \/ \E role \in Opt({"member"}), resource \in Opt({"latest"}),
          privilege \in Opt(PrivilegeNames) :
          CacheHasRoom /\ begin_get_rule(role, resource, privilege)
    \/ query_precedence_step

(* A call that has started keeps running: the code is sequential. *)
SpecSteps ==
    /\ Init /\ [][NextSteps]_vars
    /\ WF_vars(resource_lineage_step)
    /\ WF_vars(iter_roles_step)
    /\ WF_vars(query_precedence_step)

\* C25: every operation terminates: a call in progress returns, the loop of
\* get_resource_lineage at a root, the walk of iter_roles when its outermost
\* loop is through, and the search of get_rule with a rule, the one that
\* get_rule is specified to return.
C25_CallsReturn ==
    /\ (call # Idle) ~> (call = Idle)
    /\ [][(call # Idle /\ call' = Idle) =>
            IF call.at = "get_resource_lineage"
            THEN ret' = Names(get_resource_lineage(call.v[1]))
                 /\ is_none(resources[call.v[Len(call.v)]])
            ELSE IF call.at = "iter_roles"
            THEN ret' = Names(get_role_lineage(call.lineage[1]))
            ELSE /\ ret' \in {RuleValue(Rule(a)) : a \in Access}
                 /\ ret' = get_rule_result(call.q.role, call.q.resource,
                                           call.q.privilege).rule
                 /\ lock' = get_rule_result(call.q.role, call.q.resource,
                                            call.q.privilege).lock]_vars

\* get_rule for member on latest is in the loop of query_precedence, with
\* the lineages of a resource with a parent and of a role with a parent.
C25_Witness ==
    /\ call.at = "query_precedence"
    /\ call.resources = Some(<<"latest", "news">>)
    /\ call.roles = Some(<<"member", "guest">>)
    /\ call.n = 3

\* C26: the lineage and ancestor queries never fail: for a name that is not
\* registered get_role_lineage, get_role_ancestors, get_resource_lineage and
\* get_resource_ancestors return the empty sequence, and for a registered
\* name the lineage starts with the name and the ancestors are the lineage
\* without its first element.
C26_LineageQueriesTotal ==
    /\ \A name \in Range(DagRoles) :
          LET lin == get_role_lineage(name)
              anc == get_role_ancestors(name)
          IN IF has_role(name)
             THEN /\ Len(lin) >= 1 /\ lin[1] = name
                  /\ anc = SubSeq(lin, 2, Len(lin))
             ELSE lin = <<>> /\ anc = <<>>
    /\ \A name \in Range(DagResources) :
          LET lin == get_resource_lineage(name)
              anc == get_resource_ancestors(name)
          IN /\ lin # Panic
             /\ IF has_resource(name)
                THEN /\ Len(lin) >= 1 /\ lin[1] = name
                     /\ anc = SubSeq(lin, 2, Len(lin))
                ELSE lin = <<>> /\ anc = <<>>

\* editor has the ancestors staff and guest, latest has the ancestor news,
\* and publisher and breaking are not registered.
C26_Witness ==
    /\ get_role_ancestors("editor") = <<"staff", "guest">>
    /\ get_resource_ancestors("latest") = <<"news">>
    /\ ~has_role("publisher")
    /\ ~has_resource("breaking")

(***************************************************************************)
(* A client that registers roles and resources with any parents and asks   *)
(* for the parents of any name: the getters take &self, they return a      *)
(* value and leave the Acl as it is.                                       *)
(***************************************************************************)
call_get_role_parents(name) ==
    /\ ret' = get_role_parents(name)
    /\ UNCHANGED <<resources, roles, rules, lock, call>>

call_get_resource_parent(name) ==
    /\ ret' = get_resource_parent(name)
    /\ UNCHANGED <<resources, roles, rules, lock, call>>

NextAsk ==
    \/ \E name \in RegResources, parent \in Opt(RegResources) : add_resource(name, parent)
    \/ \E name \in RoleNames, parents \in ParentLists : add_role(name, parents)
    \/ \E name \in RoleNames : call_get_role_parents(name)
    \/ \E name \in RegResources : call_get_resource_parent(name)

SpecAsk == Init /\ [][NextAsk]_vars

\* C27: get_role_parents(name) returns MissingRole(name) exactly when name is
\* not a registered role and get_resource_parent(name) returns
\* MissingResource(name) exactly when name is not a registered resource;
\* otherwise they return what the registration stored, the parents of the
\* role and the parent of the resource (None for a root), and the calls
\* change nothing.
C27_ParentGetters ==
    /\ [](\A name \in RoleNames :
            /\ (get_role_parents(name) = Err(MissingRole(name))) <=> ~has_role(name)
            /\ has_role(name) => get_role_parents(name) = <<"Ok", roles[name]>>)
    /\ [](\A name \in RegResources :
            /\ (get_resource_parent(name) = Err(MissingResource(name)))
                  <=> ~has_resource(name)
            /\ has_resource(name) => get_resource_parent(name) = <<"Ok", resources[name]>>)
    /\ [][\A name \in RoleNames, parents \in ParentLists :
            (add_role(name, parents) /\ ret' = Ok)
            => get_role_parents(name)' = <<"Ok", reverse(parents)>>]_vars
    /\ [][\A name \in RegResources, parent \in Opt(RegResources) :
            (add_resource(name, parent) /\ ret' = Ok)
            => get_resource_parent(name)' = <<"Ok", parent>>]_vars
    /\ [][((\E name \in RoleNames : call_get_role_parents(name))
           \/ (\E name \in RegResources : call_get_resource_parent(name)))
          => UNCHANGED <<resources, roles, rules, lock>>]_vars

\* The role member with the parent guest and the root resource news are
\* registered, and the parent of the unregistered latest was asked for.
C27_Witness ==
    /\ ret = Err(MissingResource("latest"))
    /\ get_role_parents("member") = <<"Ok", <<"guest">>>>
    /\ get_resource_parent("news") = <<"Ok", None>>

\* C28: inside one (resource, role) pair the rule stored for the privilege
\* governs over the rule stored for the wildcard privilege, the wildcard
\* privilege key is probed only when the resource or the role of the pair is
\* not the wildcard, and so for the pair of both wildcards only the key of
\* the privilege is probed and then the catch-all rule is returned.
C28_PrivilegeSpecificity ==
    \A role \in QRoles, resource \in QResources, privilege \in QPrivileges :
        LET specific == get(rules, Query(resource, role, privilege))
            wildcard == get(rules, Query(resource, role, None))
            found == query_privileges(resource, role, privilege)
        IN /\ (is_some(privilege) /\ is_some(specific)) => found = specific
           /\ (~(is_some(privilege) /\ is_some(specific))
               /\ (is_some(resource) \/ is_some(role))) => found = wildcard
           /\ (is_none(resource) /\ is_none(role)) =>
                 /\ found = (IF is_some(privilege) THEN specific ELSE None)
                 /\ Returned(role, resource, privilege)
                       = (IF is_some(specific) THEN RuleValue(unwrap(specific))
                          ELSE RuleValue(rules[ALL]))
           /\ (is_none(lock) /\ is_none(specific) /\ is_some(wildcard)
               /\ (is_some(resource) \/ is_some(role)))
              => Returned(role, resource, privilege) = RuleValue(unwrap(wildcard))

\* guest may view news by the rule of the privilege and may not edit it by
\* the rule of the wildcard privilege of the same pair.
C28_Witness ==
    /\ get(rules, Query(Some("news"), Some("guest"), Some("view"))) = Some(Rule("Allow"))
    /\ get(rules, Query(Some("news"), Some("guest"), None)) = Some(Rule("Deny"))
    /\ Returned(Some("guest"), Some("news"), Some("view")) = RuleValue(Rule("Allow"))
    /\ Returned(Some("guest"), Some("news"), Some("edit")) = RuleValue(Rule("Deny"))

\* C29: the order of the roles dominates the specificity of the privilege:
\* at one resource level, a wildcard-privilege rule of the first role of the
\* lineage that has any rule governs over the rule that a later role of the
\* lineage has for the privilege itself.
C29_RoleOrderDominates ==
    \A a \in {"guest", "member"}, resource \in QResources, privilege \in QPrivileges :
        LET lin == get_role_lineage(a) IN
        \A i \in 1..Len(lin), j \in 1..Len(lin) :
            (/\ i < j
             /\ is_some(privilege)
             /\ contains_key(rules, Query(resource, Some(lin[j]), privilege))
             /\ contains_key(rules, Query(resource, Some(lin[i]), None))
             /\ ~contains_key(rules, Query(resource, Some(lin[i]), privilege))
             /\ \A k \in 1..(i - 1) :
                   /\ ~contains_key(rules, Query(resource, Some(lin[k]), privilege))
                   /\ ~contains_key(rules, Query(resource, Some(lin[k]), None)))
            => /\ query_roles(resource, Some(lin), privilege)
                     = Some(rules[Query(resource, Some(lin[i]), None)])
               /\ is_none(lock) =>
                     Returned(Some(a), resource, privilege)
                        = RuleValue(rules[Query(resource, Some(lin[i]), None)])

\* member is denied everything on news and its parent guest may view news:
\* member may not view news.
C29_Witness ==
    /\ get_role_lineage("member") = <<"member", "guest">>
    /\ get(rules, Query(Some("news"), Some("member"), None)) = Some(Rule("Deny"))
    /\ get(rules, Query(Some("news"), Some("guest"), Some("view"))) = Some(Rule("Allow"))
    /\ Returned(Some("member"), Some("news"), Some("view")) = RuleValue(Rule("Deny"))

(***************************************************************************)
(* A client that registers one role and one resource, locks and unlocks,   *)
(* and calls set_rule with any key over two roles, one of them never       *)
(* registered: set_rule succeeds, or fails with each of its errors, on a   *)
(* table of several rules.                                                 *)
(***************************************************************************)
MaxFrameRules == 2
FrameRoles == {"guest", "member"}
FrameResources == {"news"}

NextFrame ==
    \/ do_lock
    \/ unlock
    \/ declare_resource(<<"news">>)
    \/ declare_role(<<"guest">>)
    \/ \E role \in Opt(FrameRoles), resource \in Opt(FrameResources),
          privilege \in Opt(PrivilegeNames), access \in Access :
          set_rule(role, resource, privilege, access) /\ RulesWithin(MaxFrameRules)

SpecFrame == Init /\ [][NextFrame]_vars

\* C30: a successful set_rule(K, a) changes at most the entry of the rule
\* table at key K: every other key keeps its rule, no other key appears, and
\* the role registry, the resource registry and the lock stay as they are; a
\* failed set_rule changes nothing at all.
C30_SetRuleFrame ==
    [][\A role \in Opt(FrameRoles), resource \in Opt(FrameResources),
          privilege \in Opt(PrivilegeNames), access \in Access :
          set_rule(role, resource, privilege, access) =>
              LET K == Query(resource, role, privilege) IN
              /\ UNCHANGED <<roles, resources, lock>>
              /\ ret' = Ok =>
                    \A k \in (DOMAIN rules \cup DOMAIN rules') \ {K} :
                        /\ k \in DOMAIN rules
                        /\ k \in DOMAIN rules'
                        /\ rules'[k] = rules[k]
              /\ ret' # Ok => rules' = rules
      ]_vars

\* Two rules of the same role and resource are stored, with different
\* decisions, and the last set_rule was refused because of the lock.
C30_Witness ==
    /\ get(rules, Query(Some("news"), Some("guest"), Some("view"))) = Some(Rule("Allow"))
    /\ get(rules, Query(Some("news"), Some("guest"), None)) = Some(Rule("Deny"))
    /\ is_some(lock)
    /\ ret = Err(Locked)

(***************************************************************************)
(* The remaining read operations as calls: each takes &self and returns a  *)
(* value.                                                                  *)
(***************************************************************************)
call_has_role(name) ==
    /\ ret' = Bool(has_role(name))
    /\ UNCHANGED <<resources, roles, rules, lock, call>>

call_has_resource(name) ==
    /\ ret' = Bool(has_resource(name))
    /\ UNCHANGED <<resources, roles, rules, lock, call>>

call_get_role_lineage(name) ==
    /\ ret' = Names(get_role_lineage(name))
    /\ UNCHANGED <<resources, roles, rules, lock, call>>

call_get_role_ancestors(name) ==
    /\ ret' = Names(get_role_ancestors(name))
    /\ UNCHANGED <<resources, roles, rules, lock, call>>

call_get_resource_lineage(name) ==
    /\ ret' = Names(get_resource_lineage(name))
    /\ UNCHANGED <<resources, roles, rules, lock, call>>

call_get_resource_ancestors(name) ==
    /\ ret' = Names(get_resource_ancestors(name))
    /\ UNCHANGED <<resources, roles, rules, lock, call>>

(* The read calls that resolve a query, and the ones that read a registry. *)
ResolvingRead ==
    \E q \in CacheQueries :
        \/ get_rule(q.role, q.resource, q.privilege)
        \/ is_allowed(q.role, q.resource, q.privilege)
        \/ is_denied(q.role, q.resource, q.privilege)

RegistryRead ==
    \/ \E name \in Range(CacheRoles) :
          \/ call_has_role(name)
          \/ call_get_role_parents(name)
          \/ call_get_role_lineage(name)
          \/ call_get_role_ancestors(name)
    \/ \E name \in Range(CacheResources) :
          \/ call_has_resource(name)
          \/ call_get_resource_parent(name)
          \/ call_get_resource_lineage(name)
          \/ call_get_resource_ancestors(name)

(* A client that declares, defines rules, locks and unlocks, and makes     *)
(* every read call in between.                                             *)
NextRead ==
    \/ do_lock
    \/ unlock
    \/ declare_resource(CacheResources)
    \/ declare_role(CacheRoles)
    \/ define_rule(Range(CacheRoles), Range(CacheResources), {}, MaxCacheRules)
    \/ ResolvingRead /\ CacheWithin(MaxCached)
    \/ RegistryRead

SpecRead == Init /\ [][NextRead]_vars

\* C31: the read operations never change the role registry, the resource
\* registry, the rule table or whether the ACL is locked; while unlocked
\* they change nothing of the Acl, and while locked only get_rule,
\* is_allowed and is_denied change anything, and only by adding entries to
\* the cache: every entry of the cache stays, with its rule.
C31_ReadsAreFramed ==
    [][/\ \/ UNCHANGED <<resources, roles, rules, lock>>
          \/ ~RegistryRead
       /\ \/ /\ UNCHANGED <<resources, roles, rules>>
             /\ is_none(lock) => lock' = lock
             /\ is_some(lock) =>
                   /\ is_some(lock')
                   /\ \A k \in DOMAIN unwrap(lock) :
                         /\ k \in DOMAIN unwrap(lock')
                         /\ unwrap(lock')[k] = unwrap(lock)[k]
          \/ ~ResolvingRead
      ]_vars

\* is_allowed has just answered on a locked ACL with an entry in the cache,
\* for a role that inherits an allowing rule.
C31_Witness ==
    /\ is_some(lock)
    /\ unwrap(lock) # EmptyMap
    /\ ret = Bool(TRUE)
    /\ get_role_lineage("member") = <<"member", "guest">>
    /\ \E k \in DOMAIN rules : rules[k] = Rule("Allow")

\* C32: while unlocked, a name that is not registered behaves in a query as
\* the wildcard: get_rule for a role that is not registered returns what it
\* returns for the wildcard role with the same resource and privilege, and
\* get_rule for a resource that is not registered returns what it returns
\* for the wildcard resource with the same role and privilege.
C32_UnregisteredIsWildcard ==
    is_none(lock) =>
        \A role \in QRoles, resource \in QResources, privilege \in QPrivileges :
            /\ (is_some(role) /\ ~has_role(unwrap(role)))
               => Returned(role, resource, privilege)
                     = Returned(None, resource, privilege)
            /\ (is_some(resource) /\ ~has_resource(unwrap(resource)))
               => Returned(role, resource, privilege)
                     = Returned(role, None, privilege)

\* member is not registered and is allowed on news by the rule of the
\* wildcard role, and guest is allowed on the unregistered latest by its
\* rule on the wildcard resource.
C32_Witness ==
    /\ ~has_role("member")
    /\ ~has_resource("latest")
    /\ get(rules, Query(Some("news"), None, None)) = Some(Rule("Allow"))
    /\ Returned(Some("member"), Some("news"), Some("view")) = RuleValue(Rule("Allow"))
    /\ get(rules, Query(None, Some("guest"), Some("view"))) = Some(Rule("Allow"))
    /\ Returned(Some("guest"), Some("latest"), Some("view")) = RuleValue(Rule("Allow"))
    /\ Returned(Some("guest"), Some("latest"), Some("edit")) = RuleValue(Rule("Deny"))

\* C33: while unlocked, the exact-key step of get_rule is redundant: for
\* every query other than the all-wildcard key whose key is in the rule
\* table, query_precedence returns the rule of that key, and for every query
\* get_rule returns what query_precedence finds, else the catch-all rule.
C33_ExactKeyRedundant ==
    is_none(lock) =>
        \A role \in QRoles, resource \in QResources, privilege \in QPrivileges :
            LET q == Query(resource, role, privilege)
                found == query_precedence(role, resource, privilege)
            IN /\ (q # ALL /\ contains_key(rules, q)) => found = Some(rules[q])
               /\ Returned(role, resource, privilege)
                     = (IF is_some(found) THEN RuleValue(unwrap(found))
                        ELSE RuleValue(rules[ALL]))

\* member has an allowing rule for view on news under the exact key, a
\* denying rule is stored for the wildcard role on news, and the search
\* alone finds the rule of the exact key.
C33_Witness ==
    /\ get(rules, Query(Some("news"), Some("member"), Some("view"))) = Some(Rule("Allow"))
    /\ get(rules, Query(Some("news"), None, None)) = Some(Rule("Deny"))
    /\ query_precedence(Some("member"), Some("news"), Some("view")) = Some(Rule("Allow"))
    /\ Returned(Some("member"), Some("news"), Some("view")) = RuleValue(Rule("Allow"))

\* C34: in every locked state the cache is well formed: no key of the cache
\* is the all-wildcard key, no key of the cache is a key of the rule table,
\* and every cached rule is the rule that the rule table stores under some
\* key other than the all-wildcard key.
C34_CacheWellFormed ==
    is_some(lock) =>
        LET cache == unwrap(lock) IN
        \A q \in DOMAIN cache :
            /\ q # ALL
            /\ ~contains_key(rules, q)
            /\ \E k \in DOMAIN rules \ {ALL} : rules[k] = cache[q]

\* A locked ACL with two stored rules and a cached allow decision for
\* member, which inherits it from guest; resources or roles may have been
\* added since the lock.
C34_Witness ==
    /\ is_some(lock)
    /\ Cardinality(DOMAIN rules) = 3
    /\ get_role_lineage("member") = <<"member", "guest">>
    /\ \E q \in DOMAIN unwrap(lock) :
          /\ q.role = Some("member")
          /\ unwrap(lock)[q] = Rule("Allow")
          /\ get(rules, Query(q.resource, Some("guest"), q.privilege)) = Some(Rule("Allow"))

(***************************************************************************)
(* A client whose calls fail in every way: registrations with any name and *)
(* any parents, several parents for a role, and set_rule with any names,   *)
(* locked and unlocked.                                                    *)
(***************************************************************************)
NextErrors ==
    \/ do_lock
    \/ unlock
    \/ \E name \in RegResources, parent \in Opt(RegResources) : add_resource(name, parent)
    \/ \E name \in RoleNames, parents \in ListsOver(RoleNames) : add_role(name, parents)
    \/ \E role \in Opt(RoleNames), resource \in Opt(RegResources), access \in Access :
          set_rule(role, resource, None, access) /\ RulesWithin(MaxRules)

SpecErrors == Init /\ [][NextErrors]_vars

\* C35: the order of the error checks is fixed: set_rule reports Locked on a
\* locked ACL whatever the names, else MissingResource for an unregistered
\* resource whatever the role, else MissingRole for an unregistered role;
\* add_role and add_resource report the duplicate name whatever the
\* parents, and add_role with unregistered parents reports the first of
\* them in the order of the declaration.
C35_ErrorPrecedence ==
    /\ [][\A role \in Opt(RoleNames), resource \in Opt(RegResources), access \in Access :
            set_rule(role, resource, None, access) =>
                /\ is_some(lock) => ret' = Err(Locked)
                /\ (is_none(lock) /\ is_some(resource) /\ ~has_resource(unwrap(resource)))
                   => ret' = Err(MissingResource(unwrap(resource)))
                /\ (/\ is_none(lock)
                    /\ is_some(resource) => has_resource(unwrap(resource))
                    /\ is_some(role) /\ ~has_role(unwrap(role)))
                   => ret' = Err(MissingRole(unwrap(role)))]_vars
    /\ [][\A name \in RoleNames, parents \in ListsOver(RoleNames) :
            add_role(name, parents) =>
                /\ has_role(name) => ret' = Err(DuplicateRole(name))
                /\ ~has_role(name) =>
                      \A i \in 1..Len(parents) :
                          (/\ ~has_role(parents[i])
                           /\ \A j \in 1..(i - 1) : has_role(parents[j]))
                          => ret' = Err(MissingParent(parents[i]))]_vars
    /\ [][\A name \in RegResources, parent \in Opt(RegResources) :
            add_resource(name, parent) =>
                /\ has_resource(name) => ret' = Err(DuplicateResource(name))
                /\ (~has_resource(name) /\ is_some(parent) /\ ~has_resource(unwrap(parent)))
                   => ret' = Err(MissingParent(unwrap(parent)))]_vars

\* With guest registered and member not, an add_role call was refused for
\* its unregistered parent member.
C35_Witness ==
    /\ ret = Err(MissingParent("member"))
    /\ has_role("guest")
    /\ ~has_role("member")
    /\ is_some(lock)

====
